---- MODULE Spec2Model ----
(***************************************************************************)
(* Fixed-point CIFAR-10 training driver (examples/cifar10/main.py).        *)
(* The driver parses the command line, builds the FixNet, optionally loads *)
(* a checkpoint, and then either evaluates once or runs the epoch loop     *)
(* (adjust learning rate, train, validate, checkpoint decision).  The fix  *)
(* policies of the model (mode and cached range per tracked tensor) belong *)
(* to the nics_fix_pt library; they are modelled from its specification.   *)
(***************************************************************************)
EXTENDS Integers, Sequences, FiniteSets, TLC

(* ------------------------------ bounds --------------------------------- *)
MaxEpoch == 2          \* largest --epoch value tried
NumTrainBatches == 2   \* batches in train_loader
NumValBatches == 2     \* batches in val_loader
MaxAbs == 2            \* largest magnitude of a tensor element
MaxGain == 2           \* validation precisions range over 89 .. 90 + MaxGain
MaxGpus == 2           \* largest number of devices in --gpu
MaxStart == 1          \* largest --start-epoch value tried

(* --------------------------- program constants ------------------------- *)
InitBestPrec1 == 90    \* module-level best_prec1
SaveThreshold == 90    \* `best_prec1 > 90` in the checkpoint decision
DefaultRangeMethod == 0
LrDecayEvery == 10

(* ----------------------------- quantization ---------------------------- *)
FIX_NONE == "FIX_NONE"
FIX_AUTO == "FIX_AUTO"
FIX_FIXED == "FIX_FIXED"
FixMethods == {FIX_NONE, FIX_AUTO, FIX_FIXED}

\* The tracked tensors of the model, addressed by (module type, role).
Policies ==
    { [type |-> "Conv2d_fix", role |-> "weight"],
      [type |-> "Conv2d_fix", role |-> "bias"],
      [type |-> "BatchNorm2d_fix", role |-> "weight"],
      [type |-> "BatchNorm2d_fix", role |-> "bias"],
      [type |-> "BatchNorm2d_fix", role |-> "running_mean"],
      [type |-> "BatchNorm2d_fix", role |-> "running_var"],
      [type |-> "Activation_fix", role |-> "activation"] }

ParamRoles == {"weight", "bias"}
BufferRoles == {"running_mean", "running_var"}

\* Which tensor a policy governs: the learnable parameters, the
\* normalization buffers, or the activations of the current batch.
Kind(p) ==
    IF p.role \in ParamRoles THEN "param"
    ELSE IF p.role \in BufferRoles THEN "buffer"
    ELSE "act"

\* A tensor is a pair of elements; T(m) has maximum magnitude m, and T(0)
\* is the all-zero tensor.
T(m) == <<0 - m, m \div 2>>

TensorValues == { T(m) : m \in 0 .. MaxAbs }

\* The stored tensors of the model (what state_dict holds): parameters and
\* buffers.  The states tried pair a parameter tensor with a buffer tensor.
ModelStates == { [param |-> T(m), buffer |-> T(MaxAbs - m)] : m \in 0 .. MaxAbs }

\* The model as constructed, before any load or training step.
FreshState == [param |-> T(1), buffer |-> T(0)]

\* A trained model, as found in a checkpoint that comes from elsewhere.
TrainedState == [param |-> T(MaxAbs), buffer |-> T(MaxAbs)]

Abs(x) == IF x < 0 THEN 0 - x ELSE x

Max(a, b) == IF a >= b THEN a ELSE b

\* Ranges are counted in tenths; the floor stands for the epsilon that
\* replaces the degenerate range of an all-zero tensor.
RangeFloor == 1
RangeUnit == 10
\* The range a freshly constructed policy holds before any estimate.
InitRange == 0

\* RANGE_MAX: the maximum absolute value of the tensor, floored.
RangeMax(t) == Max(RangeUnit * Max(Abs(t[1]), Abs(t[2])), RangeFloor)

\* set_fix_method(default, method_by_type): every policy takes the override
\* registered for its (module type, role) and the default otherwise.
HasOverride(p, by_type) ==
    /\ p.type \in DOMAIN by_type
    /\ p.role \in DOMAIN by_type[p.type]

SetFixMethodSticky(cur, default, by_type) ==
    [p \in Policies |->
        IF HasOverride(p, by_type) THEN by_type[p.type][p.role]
        ELSE IF cur[p] = FIX_NONE THEN cur[p] ELSE default]
SetFixMethod(cur, default, by_type) ==
    [p \in Policies |->
        IF HasOverride(p, by_type) THEN by_type[p.type][p.role] ELSE default]

NoOverride == <<>>

\* One use of a policy on tensor t: AUTO re-estimates the range, FIXED
\* reuses the cached one, NONE leaves the tensor and the range alone.
UseRange(mode, cached, t) ==
    IF mode = FIX_AUTO THEN RangeMax(t) ELSE cached

(* ----------------------------- command line ---------------------------- *)
\* argparse keeps a command-line word as a string unless the argument
\* declares a type; defaults and choices are the Python objects written in
\* the parser.
PyStr(s) == [kind |-> "str", text |-> s]
PyInt(n) == [kind |-> "int", val |-> n]
Absent == [kind |-> "absent"]

DigitText == [n \in 0 .. 3 |-> CASE n = 0 -> "0" [] n = 1 -> "1"
                                  [] n = 2 -> "2" [] OTHER -> "3"]

\* int(text) for the words tried here.
ParseInt(text) == CHOOSE n \in DOMAIN DigitText : DigitText[n] = text

\* argparse _get_value: apply the declared type to the word.
get_value(type, word) ==
    IF type = "int" THEN PyInt(ParseInt(word.text)) ELSE word

\* choices=[0, 1, 3] of --range-method and --grad-range-method.
RangeChoices == {PyInt(0), PyInt(1), PyInt(3)}

\* --range-method / --grad-range-method declare choices but no type.
RangeMethodType == "none"

\* argparse _check_value: a given word is converted and must be a choice.
check_value(word) ==
    word = Absent \/ get_value(RangeMethodType, word) \in RangeChoices

\* The value stored in args: the converted word, or the default.
parsed_range_method(word) ==
    IF word = Absent THEN PyInt(DefaultRangeMethod)
    ELSE get_value(RangeMethodType, word)

RangeWords == {Absent} \cup { PyStr(DigitText[n]) : n \in DOMAIN DigitText }

\* Paths: none given, a path where no file is, a checkpoint file that comes
\* from elsewhere, and the files save_checkpoint writes into save_dir.
NoPath == [kind |-> "none"]
MissingPath == [kind |-> "missing"]
ExternalPath == [kind |-> "external"]

\* os.path.join(save_dir, "checkpoint_{}_{:.3f}.tar".format(prefix, best_prec1))
checkpoint_filename(best) == [kind |-> "save_dir", prec |-> best]

PrecValues == (InitBestPrec1 - 1) .. (InitBestPrec1 + MaxGain)

\* Checkpoint files that come from elsewhere.
ExternalCheckpoints(Epochs, Precs, States) ==
    [name : {ExternalPath}, epoch : Epochs, best_prec1 : Precs,
     state_dict : States, at : {0 - 1}]

(* ------------------------------- state --------------------------------- *)
VARIABLES
    pc,           \* position of the process in main()
    run,          \* "first" process, or the one "resumed" after it
    argv,         \* the command line as typed
    args,         \* the parsed arguments (args.start_epoch is overwritten by --resume)
    built,        \* FixNet has been constructed
    model_cfg,    \* range methods handed to the FixNet constructor
    fix_method,   \* model: mode of every policy
    range,        \* model: cached range of every policy
    tensor,       \* model: current parameters and buffers
    computed,     \* history: the cached range comes from an AUTO use of this run
    auto_range,   \* history: range computed by the last AUTO use of this run
    last_fwd,     \* history: the last forward pass
    best_prec1,   \* global best_prec1
    epoch,        \* loop variable of the epoch loop
    lr_halvings,  \* exponent of 0.5 in the current learning rate
    i,            \* batch index inside train() / validate()
    caller,       \* who called validate(): "evaluate" or "epoch"
    prec1,        \* value returned by validate()
    files,        \* checkpoint files in save_dir
    loaded,       \* history: what --resume / --pretrained loaded in this run
    saved,        \* history: checkpoints written by this run, in order
    seen,         \* history: validation precisions of this run's epochs
    trace,        \* history: the steps of the epoch loop taken by this run
    decided,      \* history: the checkpoint decisions of this run, in order
    call          \* history: the set_fix_method calls of SpecSetFixMethod

vars == <<pc, run, argv, args, built, model_cfg, fix_method, range, tensor,
          computed, auto_range, last_fwd, best_prec1, epoch, lr_halvings, i,
          caller, prec1, files, loaded, saved, seen, trace, decided,
          call>>

model_vars == <<fix_method, range, tensor, computed, auto_range, last_fwd>>
loop_vars == <<epoch, lr_halvings, i, caller, prec1>>
hist_vars == <<loaded, saved, seen, trace, decided, call>>

NoFwd == [phase |-> "none"]
NoCheckpoint == [name |-> NoPath]
NoLoad == [resume |-> NoCheckpoint, pretrained |-> NoCheckpoint]
NoCall == [n |-> 0]

\* The state of a process before main() runs.
InitProcess ==
    /\ run = "first"
    /\ argv = [given |-> FALSE]
    /\ args = [given |-> FALSE]
    /\ built = FALSE
    /\ model_cfg = [given |-> FALSE]
    /\ range = [p \in Policies |-> InitRange]
    /\ tensor = FreshState
    /\ computed = [p \in Policies |-> FALSE]
    /\ auto_range = [p \in Policies |-> InitRange]
    /\ last_fwd = NoFwd
    /\ best_prec1 = InitBestPrec1
    /\ epoch = 0
    /\ lr_halvings = 0
    /\ i = 0
    /\ caller = "none"
    /\ prec1 = 0
    /\ files = {}
    /\ loaded = NoLoad
    /\ saved = <<>>
    /\ seen = {}
    /\ trace = <<>>
    /\ decided = <<>>

Init ==
    /\ InitProcess
    /\ pc = "parse"
    /\ fix_method = [p \in Policies |-> FIX_AUTO]
    /\ call = NoCall

(* ------------------------------ main() --------------------------------- *)
FileNames == { f.name : f \in files }

\* os.path.isfile(path)
isfile(path) == path = ExternalPath \/ path \in FileNames

\* What torch.load(path) can return: the file this program wrote under that
\* name, or one of the checkpoints External when the file comes from elsewhere.
Checkpoints(path, External) ==
    IF path \in FileNames THEN { f \in files : f.name = path } ELSE External

\* args = parser.parse_args(): argparse exits with a usage error when a
\* given word is not among the declared choices.  The parameters are the
\* command lines tried.
ParseArgs(Words, Gpus, Evals, Starts, Epochs, Resumes, Pretraineds) ==
    /\ pc = "parse"
    /\ \E rm \in Words, grm \in Words, g \in Gpus, ev \in Evals,
          se \in Starts, ep \in Epochs, res \in Resumes, pre \in Pretraineds :
        /\ argv' = [given |-> TRUE, range_method |-> rm,
                    grad_range_method |-> grm, start_epoch |-> se]
        /\ IF check_value(rm) /\ check_value(grm)
           THEN /\ args' = [given |-> TRUE,
                            range_method |-> parsed_range_method(rm),
                            grad_range_method |-> parsed_range_method(grm),
                            gpus |-> g, evaluate |-> ev, start_epoch |-> se,
                            epoch |-> ep, resume |-> res, pretrained |-> pre]
                /\ pc' = "build"
           ELSE /\ args' = args
                /\ pc' = "usage_error"
    /\ UNCHANGED <<run, built, model_cfg, best_prec1, files>>
    /\ UNCHANGED <<model_vars, loop_vars, hist_vars>>

\* model = FixNet(range_method=args.range_method, ...)
BuildModel ==
    /\ pc = "build"
    /\ built' = TRUE
    /\ model_cfg' = [given |-> TRUE, range_method |-> args.range_method,
                     grad_range_method |-> args.grad_range_method]
    /\ pc' = "resume"
    /\ UNCHANGED <<run, argv, args, best_prec1, files>>
    /\ UNCHANGED <<model_vars, loop_vars, hist_vars>>

\* if args.resume: ... (not given)
ResumeSkip ==
    /\ pc = "resume"
    /\ args.resume = NoPath
    /\ pc' = "pretrained"
    /\ UNCHANGED <<run, argv, args, built, model_cfg, best_prec1, files>>
    /\ UNCHANGED <<model_vars, loop_vars, hist_vars>>

\* The start epoch and the best precision a resumed run takes over.
resume_start_epoch(checkpoint) == checkpoint.epoch

resume_best_prec1(checkpoint) == checkpoint.best_prec1

\* if os.path.isfile(args.resume): load epoch, best_prec1 and the weights.
ResumeLoad(External) ==
    /\ pc = "resume"
    /\ args.resume # NoPath
    /\ isfile(args.resume)
    /\ \E checkpoint \in Checkpoints(args.resume, External) :
        /\ args' = [args EXCEPT !.start_epoch = resume_start_epoch(checkpoint)]
        /\ best_prec1' = resume_best_prec1(checkpoint)
        /\ tensor' = checkpoint.state_dict
        /\ loaded' = [loaded EXCEPT !.resume = checkpoint]
    /\ pc' = "pretrained"
    /\ UNCHANGED <<run, argv, built, model_cfg, files>>
    /\ UNCHANGED <<fix_method, range, computed, auto_range, last_fwd>>
    /\ UNCHANGED <<loop_vars, saved, seen, trace, decided, call>>

\* What a failed `assert os.path.isfile(path)` leads to.
assert_ignored == "dispatch"
assert_failed == "assert_error"

\* else: assert os.path.isfile(args.resume)
ResumeMissing ==
    /\ pc = "resume"
    /\ args.resume # NoPath
    /\ ~isfile(args.resume)
    /\ pc' = assert_failed
    /\ UNCHANGED <<run, argv, args, built, model_cfg, best_prec1, files>>
    /\ UNCHANGED <<model_vars, loop_vars, hist_vars>>

\* if args.pretrained: ... (not given)
PretrainedSkip ==
    /\ pc = "pretrained"
    /\ args.pretrained = NoPath
    /\ pc' = "dispatch"
    /\ UNCHANGED <<run, argv, args, built, model_cfg, best_prec1, files>>
    /\ UNCHANGED <<model_vars, loop_vars, hist_vars>>

\* if os.path.isfile(args.pretrained): load the weights only.
PretrainedLoad(External) ==
    /\ pc = "pretrained"
    /\ args.pretrained # NoPath
    /\ isfile(args.pretrained)
    /\ \E checkpoint \in Checkpoints(args.pretrained, External) :
        /\ tensor' = checkpoint.state_dict
        /\ loaded' = [loaded EXCEPT !.pretrained = checkpoint]
    /\ pc' = "dispatch"
    /\ UNCHANGED <<run, argv, args, built, model_cfg, best_prec1, files>>
    /\ UNCHANGED <<fix_method, range, computed, auto_range, last_fwd>>
    /\ UNCHANGED <<loop_vars, saved, seen, trace, decided, call>>

\* else: assert os.path.isfile(args.pretrained)
PretrainedMissing ==
    /\ pc = "pretrained"
    /\ args.pretrained # NoPath
    /\ ~isfile(args.pretrained)
    /\ pc' = assert_failed
    /\ UNCHANGED <<run, argv, args, built, model_cfg, best_prec1, files>>
    /\ UNCHANGED <<model_vars, loop_vars, hist_vars>>

\* if args.evaluate: validate(...); return
Evaluate ==
    /\ pc = "dispatch"
    /\ args.evaluate
    /\ caller' = "evaluate"
    /\ pc' = "validate"
    /\ UNCHANGED <<run, argv, args, built, model_cfg, best_prec1, files>>
    /\ UNCHANGED <<model_vars, epoch, lr_halvings, i, prec1, hist_vars>>

\* for epoch in range(args.start_epoch, args.epoch): (entering the loop)
EnterLoop ==
    /\ pc = "dispatch"
    /\ ~args.evaluate
    /\ epoch' = args.start_epoch
    /\ pc' = "loop"
    /\ UNCHANGED <<run, argv, args, built, model_cfg, best_prec1, files>>
    /\ UNCHANGED <<model_vars, lr_halvings, i, caller, prec1, hist_vars>>

(* --------------------------- the fix policies -------------------------- *)
\* _set_fix_method_train_ori / _set_fix_method_eval_ori: one mode for all.
set_fix_method_train_ori_fixed(cur) == SetFixMethod(cur, FIX_FIXED, NoOverride)
set_fix_method_train_ori(cur) == SetFixMethod(cur, FIX_AUTO, NoOverride)

set_fix_method_eval_ori_auto(cur) == SetFixMethod(cur, FIX_AUTO, NoOverride)
set_fix_method_eval_ori(cur) == SetFixMethod(cur, FIX_FIXED, NoOverride)

\* _set_fix_method_train / _set_fix_method_eval: the normalization layer's
\* running statistics are exempted while training and estimated at test.
TrainByType ==
    [BatchNorm2d_fix |->
        [weight |-> FIX_AUTO, bias |-> FIX_AUTO,
         running_mean |-> FIX_NONE, running_var |-> FIX_NONE]]
EvalByType ==
    [BatchNorm2d_fix |->
        [weight |-> FIX_FIXED, bias |-> FIX_FIXED,
         running_mean |-> FIX_AUTO, running_var |-> FIX_AUTO]]

set_fix_method_train(cur) == SetFixMethod(cur, FIX_AUTO, TrainByType)
set_fix_method_eval(cur) == SetFixMethod(cur, FIX_FIXED, EvalByType)

\* parallel_model: with several devices DataParallel replicates the model
\* for each forward call, so every replica starts from the model's modes.
ReplicateOnce(modes, n) ==
    [r \in 1 .. n |-> IF r = 1 THEN modes ELSE [p \in Policies |-> FIX_AUTO]]
Replicate(modes, n) == [r \in 1 .. n |-> modes]

\* output = p_model(input_var): every tracked tensor is used once.  `batch`
\* is the activation tensor of this batch and `w` the replica whose range
\* estimate is the one kept in the policy.
Forward(phase, batch, w) ==
    LET replicas == Replicate(fix_method, args.gpus)
        input == [param |-> tensor.param, buffer |-> tensor.buffer,
                  act |-> batch]
        mode == replicas[w]
    IN  /\ range' = [p \in Policies |->
                        UseRange(mode[p], range[p], input[Kind(p)])]
        /\ computed' = [p \in Policies |->
                        computed[p] \/ mode[p] = FIX_AUTO]
        /\ auto_range' = [p \in Policies |->
                        IF mode[p] = FIX_AUTO THEN range'[p] ELSE auto_range[p]]
        /\ last_fwd' = [phase |-> phase, first |-> (i = 0),
                        replicas |-> replicas, input |-> input,
                        changed |-> { p \in Policies : range'[p] # range[p] },
                        used |-> range',
                        known |-> computed']

(* ---------------------------- the epoch loop --------------------------- *)
\* adjust_learning_rate: lr = args.lr * 0.5 ** (epoch // 10)
adjust_learning_rate(e) == e \div LrDecayEvery

\* for epoch in range(...): adjust_learning_rate(optimizer, epoch)
LoopNext ==
    /\ pc = "loop"
    /\ epoch < args.epoch
    /\ lr_halvings' = adjust_learning_rate(epoch)
    /\ trace' = Append(trace, <<"lr", epoch>>)
    /\ pc' = "train"
    /\ UNCHANGED <<run, argv, args, built, model_cfg, best_prec1, files>>
    /\ UNCHANGED <<model_vars, epoch, i, caller, prec1>>
    /\ UNCHANGED <<loaded, saved, seen, decided, call>>

\* the range is exhausted: print("Best acc: ...")
LoopEnd ==
    /\ pc = "loop"
    /\ epoch >= args.epoch
    /\ pc' = "done"
    /\ UNCHANGED <<run, argv, args, built, model_cfg, best_prec1, files>>
    /\ UNCHANGED <<model_vars, loop_vars, hist_vars>>

\* train(): switch to train mode
TrainEnter ==
    /\ pc = "train"
    /\ fix_method' = set_fix_method_train_ori(fix_method)
    /\ i' = 0
    /\ trace' = Append(trace, <<"train", epoch>>)
    /\ pc' = "train_loop"
    /\ UNCHANGED <<run, argv, args, built, model_cfg, best_prec1, files>>
    /\ UNCHANGED <<range, tensor, computed, auto_range, last_fwd>>
    /\ UNCHANGED <<epoch, lr_halvings, caller, prec1>>
    /\ UNCHANGED <<loaded, saved, seen, decided, call>>

\* one training batch: forward, backward, optimizer.step().  The step moves
\* the parameters, and the normalization layers update their running
\* statistics; `States` are the model states the step can lead to.
TrainBatch(Batches, States) ==
    /\ pc = "train_loop"
    /\ i < NumTrainBatches
    /\ \E batch \in Batches, w \in 1 .. args.gpus, next \in States :
        /\ Forward("train", batch, w)
        /\ tensor' = next
    /\ i' = i + 1
    /\ UNCHANGED <<pc, run, argv, args, built, model_cfg, best_prec1, files>>
    /\ UNCHANGED <<fix_method, epoch, lr_halvings, caller, prec1, hist_vars>>

\* train_loader is exhausted; main() goes on to validate()
TrainExit ==
    /\ pc = "train_loop"
    /\ i >= NumTrainBatches
    /\ caller' = "epoch"
    /\ pc' = "validate"
    /\ UNCHANGED <<run, argv, args, built, model_cfg, best_prec1, files>>
    /\ UNCHANGED <<model_vars, epoch, lr_halvings, i, prec1, hist_vars>>

\* validate(): switch to evaluate mode
ValidateEnter ==
    /\ pc = "validate"
    /\ fix_method' = set_fix_method_eval_ori(fix_method)
    /\ i' = 0
    /\ trace' = IF caller = "epoch" THEN Append(trace, <<"validate", epoch>>)
                ELSE trace
    /\ pc' = "validate_loop"
    /\ UNCHANGED <<run, argv, args, built, model_cfg, best_prec1, files>>
    /\ UNCHANGED <<range, tensor, computed, auto_range, last_fwd>>
    /\ UNCHANGED <<epoch, lr_halvings, caller, prec1>>
    /\ UNCHANGED <<loaded, saved, seen, decided, call>>

\* one validation batch under torch.no_grad(): forward only
ValidateBatch(Batches) ==
    /\ pc = "validate_loop"
    /\ i < NumValBatches
    /\ \E batch \in Batches, w \in 1 .. args.gpus :
        Forward("validate", batch, w)
    /\ i' = i + 1
    /\ UNCHANGED <<pc, run, argv, args, built, model_cfg, best_prec1, files>>
    /\ UNCHANGED <<fix_method, tensor, epoch, lr_halvings, caller, prec1>>
    /\ UNCHANGED hist_vars

\* return top1.avg
ValidateExit(Precs) ==
    /\ pc = "validate_loop"
    /\ i >= NumValBatches
    /\ \E avg \in Precs : prec1' = avg
    /\ pc' = IF caller = "evaluate" THEN "done" ELSE "decide"
    /\ UNCHANGED <<run, argv, args, built, model_cfg, best_prec1, files>>
    /\ UNCHANGED <<model_vars, epoch, lr_halvings, i, caller, hist_vars>>

\* is_best = prec1 > best_prec1
is_best_or_equal(p, best) == p >= best
is_best(p, best) == p > best

\* the "epoch" entry of the saved state
saved_epoch_same(e) == e
saved_epoch(e) == e + 1

\* save_checkpoint(state, is_best, filename): torch.save(state, filename)
save_checkpoint(state) ==
    { f \in files : f.name # state.name } \cup {state}

\* remember best prec@1 and save checkpoint; then the next epoch
Decide ==
    /\ pc = "decide"
    /\ LET best == Max(prec1, best_prec1)
           state == [name |-> checkpoint_filename(best),
                     epoch |-> saved_epoch(epoch),
                     best_prec1 |-> best,
                     state_dict |-> tensor,
                     at |-> epoch]
       IN  /\ best_prec1' = best
           /\ IF best > SaveThreshold /\ is_best(prec1, best_prec1)
              THEN /\ files' = save_checkpoint(state)
                   /\ saved' = Append(saved, state)
              ELSE UNCHANGED <<files, saved>>
    /\ seen' = seen \cup {prec1}
    /\ decided' = Append(decided, [epoch |-> epoch, prec1 |-> prec1,
                                    before |-> best_prec1])
    /\ trace' = Append(trace, <<"decide", epoch>>)
    /\ epoch' = epoch + 1
    /\ pc' = "loop"
    /\ UNCHANGED <<run, argv, args, built, model_cfg, loaded, call>>
    /\ UNCHANGED <<model_vars, lr_halvings, i, caller, prec1>>

\* The process has ended.
Terminated == pc \in {"done", "usage_error", "assert_error"}

\* A second process is started on the save_dir the first one left.
Restart ==
    /\ Terminated
    /\ run = "first"
    /\ pc' = "parse"
    /\ run' = "resumed"
    /\ argv' = [given |-> FALSE]
    /\ args' = [given |-> FALSE]
    /\ built' = FALSE
    /\ model_cfg' = [given |-> FALSE]
    /\ fix_method' = [p \in Policies |-> FIX_AUTO]
    /\ range' = [p \in Policies |-> InitRange]
    /\ tensor' = FreshState
    /\ computed' = [p \in Policies |-> FALSE]
    /\ auto_range' = [p \in Policies |-> InitRange]
    /\ last_fwd' = NoFwd
    /\ best_prec1' = InitBestPrec1
    /\ epoch' = 0
    /\ lr_halvings' = 0
    /\ i' = 0
    /\ caller' = "none"
    /\ prec1' = 0
    /\ loaded' = NoLoad
    /\ saved' = <<>>
    /\ seen' = {}
    /\ trace' = <<>>
    /\ decided' = <<>>
    /\ UNCHANGED <<files, call>>

(* ---------------------------- specifications --------------------------- *)
AnyPath == {NoPath, MissingPath, ExternalPath}

\* Spec: the driver with every command line, one device, fixed tensors, and
\* a second process resuming on what the first one saved.
Next ==
    \/ ParseArgs(RangeWords, {1}, BOOLEAN, 0 .. MaxStart, 0 .. MaxEpoch,
                 AnyPath \cup FileNames, AnyPath)
    \/ BuildModel
    \/ ResumeSkip
    \/ ResumeLoad(ExternalCheckpoints(0 .. MaxEpoch, PrecValues, {FreshState}))
    \/ ResumeMissing
    \/ PretrainedSkip
    \/ PretrainedLoad(ExternalCheckpoints({0}, {InitBestPrec1}, ModelStates))
    \/ PretrainedMissing
    \/ Evaluate
    \/ EnterLoop
    \/ LoopNext
    \/ LoopEnd
    \/ TrainEnter
    \/ TrainBatch({T(1)}, {FreshState})
    \/ TrainExit
    \/ ValidateEnter
    \/ ValidateBatch({T(1)})
    \/ ValidateExit(PrecValues)
    \/ Decide
    \/ Restart

Spec == Init /\ [][Next]_vars

\* SpecPolicy: one process on one device, the tensors varied, the command
\* line otherwise fixed to --epoch MaxEpoch.
NextPolicy ==
    \/ ParseArgs({Absent, PyStr("2")}, {1}, BOOLEAN, {0}, {MaxEpoch},
                 AnyPath, AnyPath)
    \/ BuildModel
    \/ ResumeSkip
    \/ ResumeLoad(ExternalCheckpoints({0}, {InitBestPrec1}, {TrainedState}))
    \/ ResumeMissing
    \/ PretrainedSkip
    \/ PretrainedLoad(ExternalCheckpoints({0}, {InitBestPrec1}, {TrainedState}))
    \/ PretrainedMissing
    \/ Evaluate
    \/ EnterLoop
    \/ LoopNext
    \/ LoopEnd
    \/ TrainEnter
    \/ TrainBatch(TensorValues, ModelStates)
    \/ TrainExit
    \/ ValidateEnter
    \/ ValidateBatch(TensorValues)
    \/ ValidateExit({InitBestPrec1 + 1})
    \/ Decide

SpecPolicy == Init /\ [][NextPolicy]_vars

\* SpecReplicas: one process, the number of devices varied, two batches
\* and two model states tried.
NextReplicas ==
    \/ ParseArgs({Absent, PyStr("2")}, 1 .. MaxGpus, BOOLEAN, {0}, {MaxEpoch},
                 AnyPath, AnyPath)
    \/ BuildModel
    \/ ResumeSkip
    \/ ResumeLoad(ExternalCheckpoints({0}, {InitBestPrec1}, {TrainedState}))
    \/ ResumeMissing
    \/ PretrainedSkip
    \/ PretrainedLoad(ExternalCheckpoints({0}, {InitBestPrec1}, {TrainedState}))
    \/ PretrainedMissing
    \/ Evaluate
    \/ EnterLoop
    \/ LoopNext
    \/ LoopEnd
    \/ TrainEnter
    \/ TrainBatch({T(0), T(MaxAbs)}, {FreshState, TrainedState})
    \/ TrainExit
    \/ ValidateEnter
    \/ ValidateBatch({T(0), T(MaxAbs)})
    \/ ValidateExit({InitBestPrec1 + 1})
    \/ Decide

SpecReplicas == Init /\ [][NextReplicas]_vars

(* ------------------------------ properties ----------------------------- *)
Ran == last_fwd.phase # "none"
Replicas == DOMAIN last_fwd.replicas
OfRoles(Roles) == { p \in Policies : p.role \in Roles }
StatPolicies == { p \in Policies : p.type = "BatchNorm2d_fix" /\ p.role \in BufferRoles }
NormParamPolicies == { p \in Policies : p.type = "BatchNorm2d_fix" /\ p.role \in ParamRoles }

AllIn(modes, Ps, m) == \A p \in Ps : modes[p] = m

\* C1: the mode of a phase is set before its first batch and kept until the
\* phase ends: while train() iterates, and in every forward pass it ran, the
\* weight, bias and activation policies are AUTO; while validate() iterates,
\* and in every forward pass it ran, they are FIXED.
C1_PhaseModes ==
    LET Ps == OfRoles({"weight", "bias", "activation"})
    IN  /\ pc = "train_loop" => AllIn(fix_method, Ps, FIX_AUTO)
        /\ pc = "validate_loop" => AllIn(fix_method, Ps, FIX_FIXED)
        /\ last_fwd.phase = "train" =>
              \A r \in Replicas : AllIn(last_fwd.replicas[r], Ps, FIX_AUTO)
        /\ last_fwd.phase = "validate" =>
              \A r \in Replicas : AllIn(last_fwd.replicas[r], Ps, FIX_FIXED)

\* A training batch of a later epoch, after a validation phase has run.
C1_Witness ==
    /\ last_fwd.phase = "train"
    /\ pc = "train_loop"
    /\ Len(decided) >= 1

\* C2: in every training forward pass the running mean and variance of the
\* normalization layers are NONE while the layer's weight and bias are AUTO;
\* in every evaluation forward pass the running statistics are not NONE.
C2_RunningStatsExempt ==
    /\ last_fwd.phase = "train" =>
          \A r \in Replicas :
              /\ AllIn(last_fwd.replicas[r], StatPolicies, FIX_NONE)
              /\ AllIn(last_fwd.replicas[r], NormParamPolicies, FIX_AUTO)
    /\ last_fwd.phase = "validate" =>
          \A r \in Replicas : \A p \in StatPolicies :
              last_fwd.replicas[r][p] # FIX_NONE

\* C3: the validation passes of an epoch use, for every policy, the range
\* the last training pass computed and leave it as it is; a training pass
\* uses the range of the tensor values it is given, whatever was frozen.
C3_FreezeAndRecompute ==
    /\ (last_fwd.phase = "validate" /\ caller = "epoch") =>
          \A p \in Policies :
              /\ last_fwd.used[p] = auto_range[p]
              /\ p \notin last_fwd.changed
              /\ last_fwd.known[p]
    /\ last_fwd.phase = "train" =>
          \A p \in Policies :
              last_fwd.used[p] = RangeMax(last_fwd.input[Kind(p)])

\* The first training batch after a validation phase recomputes a range
\* that differs from the frozen one.
C3_Witness ==
    /\ last_fwd.phase = "train"
    /\ last_fwd.first
    /\ Len(decided) >= 1
    /\ last_fwd.changed # {}

C8_FixedRangeComputed ==
    Ran =>
        \A r \in Replicas : \A p \in Policies :
            last_fwd.replicas[r][p] = FIX_FIXED => last_fwd.known[p]

\* C5: when a --resume or --pretrained path is given and no file is there,
\* the run ends in the failed assertion: it never gets past the loads, runs
\* no training or validation batch and writes no checkpoint.
NoFileAt(path) == path # NoPath /\ ~isfile(path)

C5_MissingCheckpointFatal ==
    (args.given /\ (NoFileAt(args.resume) \/ NoFileAt(args.pretrained))) =>
        /\ pc \in {"build", "resume", "pretrained", "assert_error"}
        /\ (pc = "pretrained" => ~NoFileAt(args.resume))
        /\ ~Ran
        /\ saved = <<>>
        /\ decided = <<>>

\* The run has ended on a missing --pretrained file after a good --resume.
C5_Witness ==
    /\ pc = "assert_error"
    /\ NoFileAt(args.pretrained)
    /\ loaded.resume # NoCheckpoint

\* C7: a range-method word is accepted exactly when it is 0, 1 or 3, and
\* then the model is constructed with that method.
ValidWord(word) == word = Absent \/ word.text \in {"0", "1", "3"}
Selected(word) ==
    IF word = Absent THEN PyInt(DefaultRangeMethod)
    ELSE PyInt(ParseInt(word.text))

C7_RangeMethodAccepted ==
    argv.given =>
        /\ (pc = "usage_error") <=>
              ~(ValidWord(argv.range_method) /\ ValidWord(argv.grad_range_method))
        /\ pc = "usage_error" => ~built
        /\ built =>
              /\ model_cfg.range_method = Selected(argv.range_method)
              /\ model_cfg.grad_range_method = Selected(argv.grad_range_method)

\* C9: best_prec1 is the maximum of its initial value and the validation
\* precisions of the epochs so far; an epoch writes a checkpoint exactly when
\* its precision exceeds the best before it and the new best exceeds 90; the
\* checkpoints of a run record strictly increasing bests above 90, each with
\* the number of the epoch after the one that wrote it.
MaxOf(S) == CHOOSE x \in S : \A y \in S : y <= x

InitialBest ==
    IF loaded.resume # NoCheckpoint THEN loaded.resume.best_prec1
    ELSE InitBestPrec1

SavedAt(e) == \E k \in 1 .. Len(saved) : saved[k].at = e

C9_BestAndCheckpoints ==
    /\ best_prec1 = MaxOf({InitialBest} \cup seen)
    /\ seen = { decided[k].prec1 : k \in 1 .. Len(decided) }
    /\ \A k \in 1 .. Len(decided) :
          /\ decided[k].before =
                MaxOf({InitialBest} \cup { decided[j].prec1 : j \in 1 .. k - 1 })
          /\ SavedAt(decided[k].epoch) <=>
                /\ decided[k].prec1 > decided[k].before
                /\ Max(decided[k].prec1, decided[k].before) > SaveThreshold
    /\ \A k \in 1 .. Len(saved) :
          /\ saved[k].best_prec1 > SaveThreshold
          /\ saved[k].epoch = saved[k].at + 1
          /\ saved[k] \in files
          /\ \A j \in 1 .. k - 1 : saved[j].best_prec1 < saved[k].best_prec1

\* Two checkpoints written by one run, and an epoch in between or after
\* that wrote none.
C9_Witness ==
    /\ Len(saved) >= 2
    /\ pc = "done"

\* C10: the epoch loop.
StepNames == <<"lr", "train", "validate", "decide">>
ExpectedStep(k) ==
    <<StepNames[((k - 1) % Len(StepNames)) + 1],
      args.start_epoch + ((k - 1) \div Len(StepNames))>>
EpochsToRun ==
    IF args.epoch > args.start_epoch THEN args.epoch - args.start_epoch ELSE 0
PastLoads ==
    pc \in {"dispatch", "loop", "train", "train_loop", "validate",
            "validate_loop", "decide", "done"}

\* What --resume and --pretrained leave behind when the loads are over.
LoadsAsClaimed ==
    /\ (args.given /\ loaded.resume # NoCheckpoint) =>
          /\ args.start_epoch = loaded.resume.epoch
          /\ loaded.resume.at >= 0 => args.start_epoch = loaded.resume.at + 1
          /\ InitialBest = loaded.resume.best_prec1
    /\ (PastLoads /\ loaded.resume = NoCheckpoint) =>
          args.start_epoch = argv.start_epoch
    /\ pc = "dispatch" =>
          /\ best_prec1 = InitialBest
          /\ loaded.pretrained # NoCheckpoint =>
                tensor = loaded.pretrained.state_dict

\* The steps taken are the first steps of: adjust the learning rate, train,
\* validate, decide, for each epoch start_epoch .. epoch - 1 in order; all
\* of them once the run is done.
LoopAsClaimed ==
    PastLoads =>
        /\ Len(trace) <= Len(StepNames) * EpochsToRun
        /\ \A k \in 1 .. Len(trace) : trace[k] = ExpectedStep(k)
        /\ pc = "done" => Len(trace) = Len(StepNames) * EpochsToRun
        /\ EpochsToRun = 0 => ~Ran

\* C10 as stated: every run that gets past the loads runs the epochs
\* start_epoch .. epoch - 1 each once in order, and no training or
\* validation pass when start_epoch >= epoch.
C10_AsStated == LoadsAsClaimed /\ LoopAsClaimed

\* C10 amended: the same for a run without --evaluate; a run with
\* --evaluate runs no epoch and exactly one validation phase.
C10_ResumeAndLoop ==
    /\ LoadsAsClaimed
    /\ (args.given /\ ~args.evaluate) => LoopAsClaimed
    /\ (args.given /\ args.evaluate) =>
          /\ trace = <<>>
          /\ decided = <<>>
          /\ last_fwd.phase \in {"none", "validate"}
          /\ pc = "done" => last_fwd.phase = "validate"

\* A run resumed from a checkpoint the first run wrote has trained the
\* remaining epoch and is done.
C10_Witness ==
    /\ run = "resumed"
    /\ loaded.resume # NoCheckpoint
    /\ loaded.resume.at >= 0
    /\ loaded.pretrained # NoCheckpoint
    /\ ~args.evaluate
    /\ pc = "done"
    /\ Len(trace) >= Len(StepNames)

(* ------------------- set_fix_method as a function ---------------------- *)
\* The override mappings tried: none, the two written in the driver, and
\* one that names a single role of another module type.
Overrides ==
    <<NoOverride, TrainByType, EvalByType,
      [Conv2d_fix |-> [weight |-> FIX_NONE]]>>

\* Any policy configuration, any default mode, any of the overrides.
InitSetFixMethod ==
    /\ InitProcess
    /\ pc = "set_fix_method"
    /\ fix_method \in [Policies -> FixMethods]
    /\ \E d \in FixMethods, o \in DOMAIN Overrides :
          call = [n |-> 0, default |-> d, by_type |-> o,
                  start |-> fix_method, first |-> fix_method]

\* model.set_fix_method(default, method_by_type=by_type), called again with
\* the same arguments.
CallSetFixMethod ==
    /\ pc = "set_fix_method"
    /\ call.n < 2
    /\ fix_method' = SetFixMethod(fix_method, call.default, Overrides[call.by_type])
    /\ call' = [call EXCEPT !.n = @ + 1,
                            !.first = IF call.n = 0 THEN fix_method' ELSE @]
    /\ UNCHANGED <<pc, run, argv, args, built, model_cfg, best_prec1, files>>
    /\ UNCHANGED <<range, tensor, computed, auto_range, last_fwd>>
    /\ UNCHANGED <<loop_vars, loaded, saved, seen, trace, decided>>

NextSetFixMethod == CallSetFixMethod

SpecSetFixMethod == InitSetFixMethod /\ [][NextSetFixMethod]_vars

\* C4: after set_fix_method every policy matched by a (module type, role)
\* override is in the override's mode and every other policy in the default
\* mode, whatever the configuration was; a second call with the same
\* arguments leaves the configuration of the first.
C4_SetFixMethodIdempotent ==
    LET by_type == Overrides[call.by_type]
    IN  /\ call.n >= 1 =>
              \A p \in Policies :
                  /\ (p.type \in DOMAIN by_type /\ p.role \in DOMAIN by_type[p.type])
                        => fix_method[p] = by_type[p.type][p.role]
                  /\ ~(p.type \in DOMAIN by_type /\ p.role \in DOMAIN by_type[p.type])
                        => fix_method[p] = call.default
        /\ call.n = 2 => fix_method = call.first

\* Called twice with the training overrides on a configuration that held
\* NONE for an unmatched policy and something else for a matched one.
C4_Witness ==
    /\ call.n = 2
    /\ Overrides[call.by_type] = TrainByType
    /\ call.default = FIX_AUTO
    /\ \E p \in Policies : call.start[p] = FIX_NONE /\ fix_method[p] = FIX_AUTO
    /\ \E p \in StatPolicies : call.start[p] = FIX_FIXED /\ fix_method[p] = FIX_NONE

====
